---------------------------- MODULE Spec2Model ----------------------------
(***************************************************************************)
(* Model of the classified-ads backend of ads/views.py: the Category, Ad   *)
(* and Selection endpoints over the relational store, and the ad listing   *)
(* pipeline AdView.get (filters, ordering by price, Django's Paginator,    *)
(* projection to the wire representation).                                 *)
(*                                                                         *)
(* Strings that are searched (ad names, location names, the text and       *)
(* location parameters) are sequences of one-character strings, so that    *)
(* the case-insensitive containment of icontains is computed.              *)
(***************************************************************************)
EXTENDS Integers, Sequences, FiniteSets, TLC

VARIABLES
    ads,         \* the Ad table: a set of rows, each with a unique id
    categories,  \* the Category table
    selections,  \* the Selection table
    nextId,      \* the tables' auto-increment counters
    query,       \* the GET parameters (but page) the client lists ads with
    resp,        \* the last request handled and the response to it
    created,     \* the response to the last Ad create since no write followed
    walk         \* the items of pages 1, 2, ... a client fetched in turn

vars == <<ads, categories, selections, nextId, query, resp, created, walk>>

-----------------------------------------------------------------------------
(* Bounds of the model *)

\* the ads of AdPool a store is drawn from (listing specifications)
MaxAds == 5
\* the largest page number a client asks for
MaxPage == 4
\* the number of rows the create endpoints may add to the Ad table and to
\* the Selection table
MaxCreated == 1
\* the number of rows the create endpoint may add to the Category table
MaxCategories == 1

-----------------------------------------------------------------------------
(* Values *)

\* Python's None, JSON null
None == <<>>

\* str.lower on one character
LowerChar(c) ==
    CASE c = "A" -> "a"
      [] c = "B" -> "b"
      [] c = "C" -> "c"
      [] c = "M" -> "m"
      [] c = "S" -> "s"
      [] OTHER -> c

\* the lookup `icontains`: needle occurs in hay, case ignored
IContains(hay, needle) ==
    \E i \in 0..(Len(hay) - Len(needle)) :
        \A j \in 1..Len(needle) : LowerChar(hay[i + j]) = LowerChar(needle[j])

\* settings.TOTAL_ON_PAGE, the page size of the ad list
TOTAL_ON_PAGE == 2

\* users.models.User rows: the display name and the many-to-many locations,
\* each location a row with a name
Users ==
    [u \in {1, 2} |->
        IF u = 1
        THEN [first_name |-> "Ann",
              locations  |-> {[id |-> 1, name |-> <<"M", "s", "k">>],
                              [id |-> 2, name |-> <<"m", "s">>]}]
        ELSE [first_name |-> "Bob",
              locations  |-> {[id |-> 3, name |-> <<"S", "p", "b">>]}]]

UserIds == DOMAIN Users

\* request.user of a request that carries no credentials
Anonymous == 0

\* FieldFile.url of a stored image
Url(name) == <<"/media/", name>>

\* a row of the Ad table
AdRow(id, name, author, price, description, published, category, image) ==
    [id |-> id, name |-> name, author_id |-> author, price |-> price,
     description |-> description, is_published |-> published,
     category_id |-> category, image |-> image]


-----------------------------------------------------------------------------
(* Request parameters *)

\* a GET parameter: absent (QueryDict.get gives None), given empty (""),
\* or given with a value
Absent == [kind |-> "absent", v |-> None]
Empty == [kind |-> "empty", v |-> None]
Given(v) == [kind |-> "set", v |-> v]

\* Python truth of QueryDict.get(name, None): None and "" are false
Truthy(p) == p.kind = "set"

\* the page parameter: absent, a text that is no integer ("abc", ""), or an
\* integer
PageAbsent == [kind |-> "absent", n |-> 0]
PageText == [kind |-> "text", n |-> 0]
PageInt(n) == [kind |-> "int", n |-> n]

-----------------------------------------------------------------------------
(* AdView.get: the filters *)

\* Ad.objects.all(): one row per ad; `via` is the joined location row's id,
\* 0 while no location join was made
AllRows(table) == {[ad |-> a, via |-> 0] : a \in table}

\* the lookup value of category_id__in is prepared with int(): an entry ""
\* (?cat=) raises ValueError
CatRaises(cat) == \E i \in 1..Len(cat) : cat[i].kind = "empty"

CatIds(cat) == {cat[i].v : i \in 1..Len(cat)}

\* filter(category_id__in=categories)
FilterCategory(rows, cat) == {r \in rows : r.ad.category_id \in CatIds(cat)}

\* filter(name__icontains=text)
FilterText(rows, text) == {r \in rows : IContains(r.ad.name, text)}

\* filter(author__locations__name__icontains=location): an inner join over
\* the author's locations, one row per ad and matching location
FilterLocation(rows, location) ==
    {[ad |-> r.ad, via |-> l.id] :
        <<r, l>> \in {<<r, l>> \in rows \X UNION {Users[u].locations : u \in UserIds} :
                         /\ l \in Users[r.ad.author_id].locations
                         /\ IContains(l.name, location)}}

\* filter(price__gte=price_from)
FilterPriceFrom(rows, price) == {r \in rows : r.ad.price >= price}

\* filter(price__lte=price_to)
FilterPriceTo(rows, price) == {r \in rows : r.ad.price =< price}

\* lines 148-162: each filter is applied when its parameter is truthy
Filtered(table, q) ==
    LET r0 == AllRows(table)
        r1 == IF q.cat # <<>> THEN FilterCategory(r0, q.cat) ELSE r0
        r2 == IF Truthy(q.text) THEN FilterText(r1, q.text.v) ELSE r1
        r3 == IF Truthy(q.location) THEN FilterLocation(r2, q.location.v) ELSE r2
        r4 == IF Truthy(q.price_from) THEN FilterPriceFrom(r3, q.price_from.v) ELSE r3
        r5 == IF Truthy(q.price_to) THEN FilterPriceTo(r4, q.price_to.v) ELSE r4
    IN  r5

\* order_by("-price"): the rows in some order of non-increasing price; the
\* order of rows of equal price is the database's choice
RECURSIVE OrderByPriceAsc(_)
OrderByPriceAsc(rows) ==
    IF rows = {} THEN {<<>>}
    ELSE UNION {{<<r>> \o t : t \in OrderByPriceAsc(rows \ {r})} :
                  r \in {x \in rows : \A y \in rows : x.ad.price =< y.ad.price}}
RECURSIVE OrderByPriceDesc(_)
OrderByPriceDesc(rows) ==
    IF rows = {} THEN {<<>>}
    ELSE UNION {{<<r>> \o t : t \in OrderByPriceDesc(rows \ {r})} :
                  r \in {x \in rows : \A y \in rows : x.ad.price >= y.ad.price}}

-----------------------------------------------------------------------------
(* django.core.paginator.Paginator, as AdView.get uses it *)

CeilDiv(a, b) == (a + b - 1) \div b

\* Paginator.num_pages with allow_empty_first_page and no orphans
NumPages(count) == IF count = 0 THEN 1 ELSE CeilDiv(count, TOTAL_ON_PAGE)

\* Paginator.get_page: validate_number, PageNotAnInteger gives page 1,
\* EmptyPage (below 1 or above num_pages) gives the last page
GetPageNumberFirst(page, count) ==
    IF page.kind # "int" THEN 1
    ELSE IF page.n < 1 THEN 1
    ELSE IF page.n > NumPages(count) THEN NumPages(count)
    ELSE page.n
GetPageNumberEmpty(page, count) ==
    IF page.kind # "int" THEN 1
    ELSE IF page.n < 1 THEN NumPages(count)
    ELSE page.n
GetPageNumber(page, count) ==
    IF page.kind # "int" THEN 1
    ELSE IF page.n < 1 THEN NumPages(count)
    ELSE IF page.n > NumPages(count) THEN NumPages(count)
    ELSE page.n

PageTop(number, count) ==
    IF number * TOTAL_ON_PAGE >= count THEN count ELSE number * TOTAL_ON_PAGE

\* Paginator.page(number).object_list: the slice [bottom:top]
PageSlice(ol, number) ==
    SubSeq(ol, (number - 1) * TOTAL_ON_PAGE + 1, PageTop(number, Len(ol)))

-----------------------------------------------------------------------------
(* The wire representation of an ad *)

ProjectionImageEmpty(a) ==
    [id |-> a.id, name |-> a.name, author_id |-> a.author_id,
     author |-> Users[a.author_id].first_name, price |-> a.price,
     description |-> a.description, is_published |-> a.is_published,
     category_id |-> a.category_id,
     image |-> IF a.image # "" THEN Url(a.image) ELSE Url("")]
Projection(a) ==
    [id |-> a.id, name |-> a.name, author_id |-> a.author_id,
     author |-> Users[a.author_id].first_name, price |-> a.price,
     description |-> a.description, is_published |-> a.is_published,
     category_id |-> a.category_id,
     image |-> IF a.image # "" THEN Url(a.image) ELSE None]

\* lines 169-187: the body of the list response for the ordered rows
ListBody(ol, page) ==
    LET number == GetPageNumber(page, Len(ol))
        rows == PageSlice(ol, number)
    IN  [items |-> [i \in 1..Len(rows) |-> Projection(rows[i].ad)],
         num_pages |-> NumPages(Len(ol)),
         total |-> Len(ol)]

\* the evaluated querysets the database may return for lines 148-164; none is
\* evaluated when the cat filter raises
ObjectLists ==
    IF CatRaises(query.cat) THEN {<<>>}
    ELSE OrderByPriceDesc(Filtered(ads, query))

\* AdView.get, the database returning the rows in the order ol
AdViewGet(page, ol) ==
    /\ resp' = IF CatRaises(query.cat)
               THEN [req |-> [op |-> "ad_list", page |-> page], status |-> 500,
                     body |-> [error |-> "ValueError"]]
               ELSE [req |-> [op |-> "ad_list", page |-> page], status |-> 200,
                     object_list |-> [i \in 1..Len(ol) |-> ol[i].ad.id],
                     body |-> ListBody(ol, page)]
    /\ UNCHANGED <<ads, categories, selections, nextId, query, created>>

-----------------------------------------------------------------------------
(* Rows and lookups *)

HasId(table, id) == \E r \in table : r.id = id
Row(table, id) == CHOOSE r \in table : r.id = id

\* the response to a request req
Response(req, status, body) == [req |-> req, status |-> status, body |-> body]

Request(op, user, id) == [op |-> op, user |-> user, id |-> id]

\* before any request
NoResponse == [req |-> [op |-> "none"], status |-> 0, body |-> None]

\* the categories of a store that holds ads
InitialCategories == {[id |-> 1, name |-> "cats"], [id |-> 2, name |-> "dogs"]}

-----------------------------------------------------------------------------
(* Category endpoints: plain Django views, no authentication *)

\* JsonResponse({"error": "Category not found"}, status=404)
CategoryNotFoundDefaultPage == [status |-> 404, body |-> [html |-> "Not Found"]]
CategoryNotFound == [status |-> 404, body |-> [error |-> "Category not found"]]

\* CategoryDetailView.get
CategoryDetail(id) ==
    /\ resp' = IF HasId(categories, id)
               THEN Response(Request("category_detail", Anonymous, id), 200,
                             Row(categories, id))
               ELSE Response(Request("category_detail", Anonymous, id),
                             CategoryNotFound.status, CategoryNotFound.body)
    /\ UNCHANGED <<ads, categories, selections, nextId, query, created, walk>>

\* CategoryCreateView.post
CategoryCreate(name) ==
    /\ nextId.category =< Cardinality(InitialCategories) + MaxCategories
    /\ categories' = categories \cup {[id |-> nextId.category, name |-> name]}
    /\ nextId' = [nextId EXCEPT !.category = @ + 1]
    /\ resp' = Response(Request("category_create", Anonymous, 0), 200,
                        [id |-> nextId.category, name |-> name])
    /\ created' = None
    /\ UNCHANGED <<ads, selections, query, walk>>

\* CategoryUpdateView.patch
CategoryUpdate(id, name) ==
    IF HasId(categories, id)
    THEN /\ categories' = (categories \ {Row(categories, id)})
                              \cup {[id |-> id, name |-> name]}
         /\ resp' = Response(Request("category_update", Anonymous, id), 200,
                             [id |-> id, name |-> name])
         /\ created' = None
         /\ UNCHANGED <<ads, selections, nextId, query, walk>>
    ELSE /\ resp' = Response(Request("category_update", Anonymous, id),
                             CategoryNotFound.status, CategoryNotFound.body)
         /\ UNCHANGED <<ads, categories, selections, nextId, query, created, walk>>

\* Ad.category's on_delete when a category row is deleted: the ads stay
OnCategoryDelete(table, id) == table

\* CategoryDeleteView.delete
CategoryDelete(id) ==
    IF HasId(categories, id)
    THEN /\ categories' = categories \ {Row(categories, id)}
         /\ ads' = OnCategoryDelete(ads, id)
         /\ resp' = Response(Request("category_delete", Anonymous, id), 200,
                             [status |-> "ok"])
         /\ created' = None
         /\ UNCHANGED <<selections, nextId, query, walk>>
    ELSE /\ resp' = Response(Request("category_delete", Anonymous, id),
                             CategoryNotFound.status, CategoryNotFound.body)
         /\ UNCHANGED <<ads, categories, selections, nextId, query, created, walk>>

-----------------------------------------------------------------------------
(* Permissions of the REST framework views *)

\* rest_framework.permissions.IsAuthenticated
IsAuthenticated(user) == user # Anonymous

\* ads.permissions.AdUpdatePermission: the requester is the ad's author
AdUpdatePermission(user, ad) == user = ad.author_id

\* ads.permissions.SelectionUpdatePermission: the requester is the owner
SelectionUpdatePermission(user, selection) == user = selection.owner

\* permission_classes of the views
AdDetailPermissions == {"IsAuthenticated"}
AdUpdateOnlyAuthenticated == {"IsAuthenticated"}
AdUpdatePermissions == {"IsAuthenticated", "AdUpdatePermission"}
AdDeletePermissions == {"IsAuthenticated", "AdUpdatePermission"}
SelectionCreatePermissions == {"IsAuthenticated"}
SelectionUpdatePermissions == {"IsAuthenticated", "SelectionUpdatePermission"}
SelectionDeletePermissions == {"IsAuthenticated", "SelectionUpdatePermission"}

\* APIView.initial and get_object: 401 without credentials, 404 for a
\* missing row, 403 when the row's permission refuses, else 0 (proceed)
Refusal(classes, user, table, id) ==
    IF "IsAuthenticated" \in classes /\ ~IsAuthenticated(user) THEN 401
    ELSE IF ~HasId(table, id) THEN 404
    ELSE IF "AdUpdatePermission" \in classes
            /\ ~AdUpdatePermission(user, Row(table, id)) THEN 403
    ELSE IF "SelectionUpdatePermission" \in classes
            /\ ~SelectionUpdatePermission(user, Row(table, id)) THEN 403
    ELSE 0

-----------------------------------------------------------------------------
(* Ad endpoints *)

\* ads.serializers.AdDetailSerializer
AdDetailSerializer(a) ==
    [id |-> a.id, name |-> a.name, author_id |-> a.author_id,
     author |-> Users[a.author_id].first_name, price |-> a.price,
     description |-> a.description, is_published |-> a.is_published,
     category_id |-> a.category_id,
     image |-> IF a.image # "" THEN Url(a.image) ELSE None]

\* AdDetailView (RetrieveAPIView)
AdDetail(user, id) ==
    /\ LET refused == Refusal(AdDetailPermissions, user, ads, id)
       IN  resp' = IF refused # 0
                   THEN Response(Request("ad_detail", user, id), refused, None)
                   ELSE Response(Request("ad_detail", user, id), 200,
                                 AdDetailSerializer(Row(ads, id)))
    /\ UNCHANGED <<ads, categories, selections, nextId, query, created, walk>>

\* lines 237-247: the body of the create response
CreatedBody(a) ==
    [id |-> a.id, name |-> a.name, author_id |-> a.author_id,
     author |-> Users[a.author_id].first_name, price |-> a.price,
     description |-> a.description, is_published |-> a.is_published,
     category_id |-> a.category_id,
     image |-> IF a.image # "" THEN Url(a.image) ELSE None]

\* AdCreateView.post: a plain Django view, no permission is checked
AdCreate(user, data) ==
    IF data.author_id \notin UserIds \/ ~HasId(categories, data.category_id)
    THEN /\ resp' = Response(Request("ad_create", user, 0), 404, None)
         /\ UNCHANGED <<ads, categories, selections, nextId, query, created, walk>>
    ELSE /\ nextId.ad =< MaxCreated
         /\ LET ad == AdRow(nextId.ad, data.name, data.author_id, data.price,
                            data.description, data.is_published,
                            data.category_id, "")
            IN  /\ ads' = ads \cup {ad}
                /\ resp' = Response(Request("ad_create", user, 0), 200,
                                    CreatedBody(ad))
                /\ created' = CreatedBody(ad)
         /\ nextId' = [nextId EXCEPT !.ad = @ + 1]
         /\ UNCHANGED <<categories, selections, query, walk>>

\* AdUpdateView (UpdateAPIView): the serializer saves the given fields
AdUpdate(user, id, data) ==
    LET refused == Refusal(AdUpdatePermissions, user, ads, id)
    IN  IF refused # 0
        THEN /\ resp' = Response(Request("ad_update", user, id), refused, None)
             /\ UNCHANGED <<ads, categories, selections, nextId, query, created, walk>>
        ELSE LET ad == [Row(ads, id) EXCEPT !.name = data.name,
                                            !.price = data.price]
             IN  /\ ads' = (ads \ {Row(ads, id)}) \cup {ad}
                 /\ resp' = Response(Request("ad_update", user, id), 200,
                                     AdDetailSerializer(ad))
                 /\ created' = None
                 /\ UNCHANGED <<categories, selections, nextId, query, walk>>

\* AdUploadImageView.post: a plain Django view, no permission is checked
AdUploadImage(id, file) ==
    IF ~HasId(ads, id)
    THEN /\ resp' = Response(Request("ad_upload_image", Anonymous, id), 404,
                             [error |-> "Ads not found"])
         /\ UNCHANGED <<ads, categories, selections, nextId, query, created, walk>>
    ELSE LET ad == [Row(ads, id) EXCEPT !.image = file]
         IN  /\ ads' = (ads \ {Row(ads, id)}) \cup {ad}
             /\ resp' = Response(Request("ad_upload_image", Anonymous, id), 200,
                                 CreatedBody(ad))
             /\ created' = None
             /\ UNCHANGED <<categories, selections, nextId, query, walk>>

\* AdDeleteView (DestroyAPIView); the rows of Selection.items that name the
\* ad go with it
AdDelete(user, id) ==
    LET refused == Refusal(AdDeletePermissions, user, ads, id)
    IN  IF refused # 0
        THEN /\ resp' = Response(Request("ad_delete", user, id), refused, None)
             /\ UNCHANGED <<ads, categories, selections, nextId, query, created, walk>>
        ELSE /\ ads' = ads \ {Row(ads, id)}
             /\ selections' = {[s EXCEPT !.items = @ \ {id}] : s \in selections}
             /\ resp' = Response(Request("ad_delete", user, id), 204, None)
             /\ created' = None
             /\ UNCHANGED <<categories, nextId, query, walk>>

-----------------------------------------------------------------------------
(* Selection endpoints (REST framework generic views) *)

\* SelectionCreateView
SelectionCreate(user, data) ==
    IF ~IsAuthenticated(user)
    THEN /\ resp' = Response(Request("selection_create", user, 0), 401, None)
         /\ UNCHANGED <<ads, categories, selections, nextId, query, created, walk>>
    ELSE /\ nextId.selection =< MaxCreated
         /\ LET row == [id |-> nextId.selection, name |-> data.name,
                        owner |-> data.owner, items |-> data.items]
            IN  /\ selections' = selections \cup {row}
                /\ resp' = Response(Request("selection_create", user, 0), 201, row)
         /\ nextId' = [nextId EXCEPT !.selection = @ + 1]
         /\ created' = None
         /\ UNCHANGED <<ads, categories, query, walk>>

\* SelectionUpdateView
SelectionUpdate(user, id, data) ==
    LET refused == Refusal(SelectionUpdatePermissions, user, selections, id)
    IN  IF refused # 0
        THEN /\ resp' = Response(Request("selection_update", user, id), refused, None)
             /\ UNCHANGED <<ads, categories, selections, nextId, query, created, walk>>
        ELSE LET row == [Row(selections, id) EXCEPT !.name = data.name,
                                                    !.items = data.items]
             IN  /\ selections' = (selections \ {Row(selections, id)}) \cup {row}
                 /\ resp' = Response(Request("selection_update", user, id), 200, row)
                 /\ created' = None
                 /\ UNCHANGED <<ads, categories, nextId, query, walk>>

\* SelectionDeleteView
SelectionDelete(user, id) ==
    LET refused == Refusal(SelectionDeletePermissions, user, selections, id)
    IN  IF refused # 0
        THEN /\ resp' = Response(Request("selection_delete", user, id), refused, None)
             /\ UNCHANGED <<ads, categories, selections, nextId, query, created, walk>>
        ELSE /\ selections' = selections \ {Row(selections, id)}
             /\ resp' = Response(Request("selection_delete", user, id), 204, None)
             /\ created' = None
             /\ UNCHANGED <<ads, categories, nextId, query, walk>>

-----------------------------------------------------------------------------
(* The listing specifications: a store of ads and a query, then list requests *)

\* the ads a listed store is made of
AdPool ==
    <<AdRow(1, <<"B", "i">>, 1, 2, "d1", TRUE, 1, ""),
      AdRow(2, <<"b">>, 2, 2, "d2", FALSE, 2, "a2.png"),
      AdRow(3, <<"C", "a">>, 1, 1, "d3", TRUE, 1, ""),
      AdRow(4, <<"a", "b">>, 2, 3, "d4", TRUE, 1, ""),
      AdRow(5, <<"A">>, 1, 1, "d5", TRUE, 2, "a5.png"),
      AdRow(6, <<"c", "B">>, 2, 2, "d6", FALSE, 2, ""),
      AdRow(7, <<"i">>, 1, 3, "d7", TRUE, 1, "")>>

PoolSize == IF MaxAds < Len(AdPool) THEN MaxAds ELSE Len(AdPool)

CatEntry(id) == [kind |-> "set", v |-> id]
CatEmpty == [kind |-> "empty", v |-> 0]

\* the values of cat: absent, ?cat=, ?cat=1, ?cat=1&cat=2
CatInputs == {<<>>, <<CatEmpty>>, <<CatEntry(1)>>, <<CatEntry(1), CatEntry(2)>>}
TextInputs == {Absent, Empty, Given(<<"b">>)}
LocationInputs == {Absent, Empty, Given(<<"m", "s">>)}
PriceFromInputs == {Absent, Empty, Given(2)}
PriceToInputs == {Absent, Empty, Given(2)}

Queries ==
    [cat : CatInputs, text : TextInputs, location : LocationInputs,
     price_from : PriceFromInputs, price_to : PriceToInputs]

NoQuery ==
    [cat |-> <<>>, text |-> Absent, location |-> Absent,
     price_from |-> Absent, price_to |-> Absent]

PageInputs == {PageAbsent, PageText} \cup {PageInt(n) : n \in (-1)..MaxPage}

InitList ==
    /\ ads \in SUBSET {AdPool[i] : i \in 1..PoolSize}
    /\ categories = InitialCategories
    /\ selections = {}
    /\ nextId = [ad |-> Len(AdPool) + 1, category |-> 3, selection |-> 1]
    /\ query \in Queries
    /\ resp = NoResponse
    /\ created = None
    /\ walk = <<>>

\* a client requests some page of the listing
ListAds ==
    \E ol \in ObjectLists : \E page \in PageInputs :
        AdViewGet(page, ol) /\ UNCHANGED walk

\* a client requests the pages 1, 2, ..., num_pages in turn
WalkAds ==
    /\ \/ walk = <<>>
       \/ resp.status = 200 /\ Len(walk) < resp.body.num_pages
    /\ Len(walk) < MaxPage
    /\ \E ol \in ObjectLists : AdViewGet(PageInt(Len(walk) + 1), ol)
    /\ walk' = IF resp'.status = 200 THEN Append(walk, resp'.body.items) ELSE walk

NextList == ListAds

SpecList == InitList /\ [][NextList]_vars

NextWalk == WalkAds

SpecWalk == InitList /\ [][NextWalk]_vars

-----------------------------------------------------------------------------
(* The specification of the endpoints: empty tables, then any requests *)

Requesters == {Anonymous} \cup UserIds
TargetIds == 1..MaxCreated
CategoryNames == {"cats", "dogs"}
AdNames == {<<"B", "i">>, <<"b">>}
Prices == {1, 2}

\* the JSON bodies of Ad create requests; author 3 and a category not yet
\* created do not exist
AdCreateData ==
    [name : AdNames, author_id : {1, 2, 3}, price : Prices,
     description : {"d"}, is_published : {TRUE}, category_id : {1, 3}]

AdUpdateData == [name : AdNames, price : Prices]
ImageFiles == {"", "up.png"}

SpecQueries == {NoQuery, [NoQuery EXCEPT !.price_from = Given(2)]}

Init ==
    /\ ads = {}
    /\ categories = InitialCategories
    /\ selections = {}
    /\ nextId = [ad |-> 1, category |-> 3, selection |-> 1]
    /\ query \in SpecQueries
    /\ resp = NoResponse
    /\ created = None
    /\ walk = <<>>

Next ==
    \/ ListAds
    \/ \E u \in Requesters, id \in TargetIds : AdDetail(u, id)
    \/ \E u \in Requesters, d \in AdCreateData : AdCreate(u, d)
    \/ \E u \in Requesters, id \in TargetIds, d \in AdUpdateData : AdUpdate(u, id, d)
    \/ \E id \in TargetIds, f \in ImageFiles : AdUploadImage(id, f)
    \/ \E u \in Requesters, id \in TargetIds : AdDelete(u, id)

Spec == Init /\ [][Next]_vars

\* the endpoints restricted to an owner: Ad and Selection update and delete,
\* with the creation of the rows they act on
OwnedAdData ==
    [name : {<<"b">>}, author_id : UserIds, price : {1},
     description : {"d"}, is_published : {TRUE}, category_id : {1}]

OwnedAdUpdateData == [name : {<<"B", "i">>}, price : {1}]

\* the bodies of Selection requests: the items are existing ads
SelectionData == [name : {"fav"}, owner : UserIds, items : SUBSET {a.id : a \in ads}]

SelectionUpdateData == [name : {"top"}, items : SUBSET {a.id : a \in ads}]

InitOwner ==
    /\ ads = {}
    /\ categories = InitialCategories
    /\ selections = {}
    /\ nextId = [ad |-> 1, category |-> 3, selection |-> 1]
    /\ query = NoQuery
    /\ resp = NoResponse
    /\ created = None
    /\ walk = <<>>

NextOwner ==
    \/ \E u \in Requesters, d \in OwnedAdData : AdCreate(u, d)
    \/ \E u \in Requesters, id \in TargetIds, d \in OwnedAdUpdateData :
            AdUpdate(u, id, d)
    \/ \E u \in Requesters, id \in TargetIds : AdDelete(u, id)
    \/ \E u \in Requesters, d \in SelectionData : SelectionCreate(u, d)
    \/ \E u \in Requesters, id \in TargetIds, d \in SelectionUpdateData :
            SelectionUpdate(u, id, d)
    \/ \E u \in Requesters, id \in TargetIds : SelectionDelete(u, id)

SpecOwner == InitOwner /\ [][NextOwner]_vars

\* the Category endpoints, over categories that ads may refer to
CategoryIds == 1..(Cardinality(InitialCategories) + MaxCategories + 1)

InitCategory ==
    /\ ads \in SUBSET {AdPool[1], AdPool[2]}
    /\ categories = InitialCategories
    /\ selections = {}
    /\ nextId = [ad |-> Len(AdPool) + 1, category |-> 3, selection |-> 1]
    /\ query = NoQuery
    /\ resp = NoResponse
    /\ created = None
    /\ walk = <<>>

NextCategory ==
    \/ \E id \in CategoryIds : CategoryDetail(id)
    \/ \E n \in CategoryNames : CategoryCreate(n)
    \/ \E id \in CategoryIds, n \in CategoryNames : CategoryUpdate(id, n)
    \/ \E id \in CategoryIds : CategoryDelete(id)

SpecCategory == InitCategory /\ [][NextCategory]_vars

-----------------------------------------------------------------------------
(* Properties of the ad list *)

IsList == resp.req.op = "ad_list"
ListOk == IsList /\ resp.status = 200

Range(f) == {f[i] : i \in DOMAIN f}
Ids(items) == [i \in DOMAIN items |-> items[i].id]
AdIds(rows) == {r.ad.id : r \in rows}
Min(a, b) == IF a < b THEN a ELSE b

\* the ads one parameter selects when it is the only one given; an absent or
\* empty parameter selects every ad
OnlyCat(q) ==
    IF q.cat = <<>> \/ q.cat = <<CatEmpty>> THEN {a.id : a \in ads}
    ELSE AdIds(Filtered(ads, [NoQuery EXCEPT !.cat = q.cat]))
OnlyText(q) == AdIds(Filtered(ads, [NoQuery EXCEPT !.text = q.text]))
OnlyLocation(q) == AdIds(Filtered(ads, [NoQuery EXCEPT !.location = q.location]))
OnlyPriceFrom(q) == AdIds(Filtered(ads, [NoQuery EXCEPT !.price_from = q.price_from]))
OnlyPriceTo(q) == AdIds(Filtered(ads, [NoQuery EXCEPT !.price_to = q.price_to]))

Intersection(q) ==
    OnlyCat(q) \cap OnlyText(q) \cap OnlyLocation(q) \cap OnlyPriceFrom(q)
        \cap OnlyPriceTo(q)

\* C1: for every store and every combination of cat, text, location,
\* price_from and price_to (absent, empty or set), the list request selects,
\* before pagination, exactly the ads in the intersection of what each
\* present, non-empty parameter selects alone; an absent or empty parameter
\* restricts nothing.
C1_Conjunctive ==
    IsList => /\ resp.status = 200
              /\ Range(resp.object_list) = Intersection(query)

\* C1, where the request is answered: the selection is the intersection.
C1_ConjunctiveWhenAnswered ==
    ListOk => Range(resp.object_list) = Intersection(query)

\* C1, the failing case: an empty cat value is answered with an error.
C1_EmptyCatFails == (IsList /\ CatRaises(query.cat)) => resp.status = 500

Sorted(items) ==
    \A i, j \in DOMAIN items : i < j => items[i].price >= items[j].price

\* the list request of this step follows one for the page before, both pages
\* within 1..num_pages
NextPageStep ==
    /\ ListOk /\ resp.req.page.kind = "int"
    /\ resp'.req.op = "ad_list" /\ resp'.status = 200
    /\ resp'.req.page.kind = "int"
    /\ resp.req.page.n >= 1
    /\ resp'.req.page.n = resp.req.page.n + 1
    /\ resp'.req.page.n =< resp'.body.num_pages

\* C2: for every store, filter combination and requested page, the items of
\* a list response are in non-increasing price order, and every item of page
\* k has a price greater than or equal to that of every item of page k+1.
C2_PriceOrder ==
    /\ [](ListOk => Sorted(resp.body.items))
    /\ [][NextPageStep =>
            \A i \in DOMAIN resp.body.items, j \in DOMAIN resp'.body.items :
                resp.body.items[i].price >= resp'.body.items[j].price]_vars

\* page 2 of a text search, its items cheaper than some ad of page 1
C2_Witness ==
    /\ ListOk /\ resp.req.page = PageInt(2)
    /\ resp.body.num_pages >= 2
    /\ resp.body.items # <<>>
    /\ Truthy(query.text)
    /\ \E a \in ads : a.id = resp.object_list[1]
                        /\ a.price > resp.body.items[1].price

\* C3: for every store (also when no ad matches), filter combination and
\* page, total is the number of ads matching the filters before pagination
\* and num_pages is ceil(total / page_size).
C3_TotalAndNumPages ==
    ListOk => /\ resp.body.total = Cardinality(Intersection(query))
              /\ resp.body.num_pages = CeilDiv(resp.body.total, TOTAL_ON_PAGE)

\* the request is for a page above the last page of an accepted listing
BeyondLast ==
    /\ IsList /\ ~CatRaises(query.cat)
    /\ resp.req.page.kind = "int"
    /\ resp.req.page.n > NumPages(Cardinality(Filtered(ads, query)))

\* C4 as stated: a page number greater than the last page is answered
\* successfully with an empty items list.
C4_BeyondLastEmpty ==
    BeyondLast => resp.status = 200 /\ resp.body.items = <<>>

LastPageIds ==
    SubSeq(resp.object_list, (resp.body.num_pages - 1) * TOTAL_ON_PAGE + 1,
           Len(resp.object_list))

\* C4 amended: a page number greater than the last page is answered
\* successfully with the items of the last page, which are none only when
\* no row matches.
C4_BeyondLastIsLastPage ==
    BeyondLast => /\ resp.status = 200
                  /\ Ids(resp.body.items) = LastPageIds
                  /\ (resp.body.items = <<>> <=> resp.body.total = 0)

C4_Witness ==
    /\ BeyondLast /\ resp.status = 200
    /\ resp.body.num_pages = 2 /\ Len(resp.body.items) = 1

PageInvalid ==
    /\ IsList /\ ~CatRaises(query.cat)
    /\ \/ resp.req.page.kind \in {"absent", "text"}
       \/ resp.req.page.kind = "int" /\ resp.req.page.n < 1

FirstPageIds ==
    SubSeq(resp.object_list, 1, Min(TOTAL_ON_PAGE, Len(resp.object_list)))

\* C9 as stated: an absent or invalid page (no integer, zero, negative) is
\* answered with page 1, the first page_size rows of the ordered result.
C9_InvalidPageIsFirst ==
    PageInvalid => resp.status = 200 /\ Ids(resp.body.items) = FirstPageIds

\* C9 amended: an absent page or one that is no integer is answered with
\* page 1; a zero or negative page is answered with the last page.
C9_InvalidPageFirstOrLast ==
    PageInvalid =>
        /\ resp.status = 200
        /\ Ids(resp.body.items) =
              IF resp.req.page.kind = "int" THEN LastPageIds ELSE FirstPageIds

C9_Witness ==
    /\ PageInvalid /\ resp.status = 200
    /\ resp.req.page = PageInt(0)
    /\ resp.body.num_pages = 3
    /\ Ids(resp.body.items) # FirstPageIds

\* no ad id occurs twice in the sequence
NoRepeat(seq) == \A i, j \in DOMAIN seq : i # j => seq[i] # seq[j]

WalkDone == walk # <<>> /\ resp.status = 200 /\ Len(walk) = resp.body.num_pages

\* C10: with no write in between, the pages 1..num_pages requested in turn
\* return every ad of the filtered result exactly once: no ad twice on a
\* page, pages pairwise disjoint, their union the filtered set, at most
\* page_size items a page and exactly page_size on every page but the last.
C10_WalkPartition ==
    WalkDone =>
        /\ \A k \in DOMAIN walk : NoRepeat(Ids(walk[k]))
        /\ \A k, l \in DOMAIN walk :
              k # l => Range(Ids(walk[k])) \cap Range(Ids(walk[l])) = {}
        /\ UNION {Range(Ids(walk[k])) : k \in DOMAIN walk} = Intersection(query)
        /\ \A k \in DOMAIN walk : Len(walk[k]) =< TOTAL_ON_PAGE
        /\ \A k \in DOMAIN walk : k < Len(walk) => Len(walk[k]) = TOTAL_ON_PAGE

-----------------------------------------------------------------------------
(* Properties of the Ad, Selection and Category endpoints *)

AdCrudOps == {"ad_detail", "ad_create", "ad_update", "ad_delete"}
Rejected(status) == status \in {401, 403}

\* C5: every retrieve, create, update and delete request on an Ad by an
\* unauthenticated requester is rejected and leaves the set of ads unchanged.
C5_UnauthenticatedRejected ==
    [][(resp'.req.op \in AdCrudOps /\ resp'.req.user = Anonymous) =>
            (Rejected(resp'.status) /\ ads' = ads)]_vars

\* C5, the three REST framework views: retrieve, update and delete by an
\* unauthenticated requester are rejected and change nothing.
C5_ExceptCreate ==
    [][(resp'.req.op \in AdCrudOps \ {"ad_create"} /\ resp'.req.user = Anonymous) =>
            (Rejected(resp'.status) /\ ads' = ads)]_vars

\* the request of this step is an authenticated update or delete of an
\* existing ad by a user who is not its author
AdByOther ==
    /\ resp'.req.op \in {"ad_update", "ad_delete"}
    /\ resp'.req.user # Anonymous
    /\ HasId(ads, resp'.req.id)
    /\ Row(ads, resp'.req.id).author_id # resp'.req.user

\* the same for an existing selection and a user who is not its owner
SelectionByOther ==
    /\ resp'.req.op \in {"selection_update", "selection_delete"}
    /\ resp'.req.user # Anonymous
    /\ HasId(selections, resp'.req.id)
    /\ Row(selections, resp'.req.id).owner # resp'.req.user

\* C6: through the Ad update and delete endpoints an ad is changed or
\* removed only by a request of its author, and through the Selection update
\* and delete endpoints a selection only by a request of its owner; a
\* request by another user is rejected and leaves the entity unchanged.
C6_OwnerOnly ==
    [][/\ AdByOther =>
            (resp'.status = 403 /\ ads' = ads /\ selections' = selections)
       /\ SelectionByOther =>
            (resp'.status = 403 /\ selections' = selections)
       /\ (resp'.req.op \in {"ad_update", "ad_delete"} /\ ads' # ads) =>
            (/\ HasId(ads, resp'.req.id)
             /\ Row(ads, resp'.req.id).author_id = resp'.req.user
             /\ \A a \in ads : a.id # resp'.req.id => a \in ads')
       /\ (resp'.req.op \in {"selection_update", "selection_delete"}
              /\ selections' # selections) =>
            (/\ HasId(selections, resp'.req.id)
             /\ Row(selections, resp'.req.id).owner = resp'.req.user
             /\ \A x \in selections : x.id # resp'.req.id => x \in selections')
      ]_vars

\* an authenticated user who is not the author was refused, and another who
\* is not the owner of a selection holding the ad
C6_Witness ==
    /\ resp.req.op = "selection_delete" /\ resp.status = 403
    /\ resp.req.user # Anonymous
    /\ \E a \in ads : a.author_id \notin {Anonymous, resp.req.user}
    /\ \E x \in selections : x.id = resp.req.id /\ x.owner # resp.req.user
                                /\ x.items # {}

CategoryOps == {"category_detail", "category_update", "category_delete"}

\* C7: a Category detail, update or delete request whose id matches no
\* category is answered 404 with {"error": "Category not found"} and leaves
\* the categories unchanged; a delete of an existing category is answered
\* {"status": "ok"} and removes exactly that category.
C7_CategoryNotFound ==
    [][/\ (resp'.req.op \in CategoryOps /\ ~HasId(categories, resp'.req.id)) =>
            (/\ resp'.status = 404
             /\ resp'.body = [error |-> "Category not found"]
             /\ categories' = categories)
       /\ (resp'.req.op = "category_delete" /\ HasId(categories, resp'.req.id)) =>
            (/\ resp'.status = 200
             /\ resp'.body = [status |-> "ok"]
             /\ categories' = {c \in categories : c.id # resp'.req.id})
      ]_vars

\* the delete of a category that was deleted before, answered 404, while
\* an ad still names that category and another category exists
C7_Witness ==
    /\ resp.req.op = "category_delete" /\ resp.status = 404
    /\ categories # {}
    /\ ~HasId(categories, resp.req.id)
    /\ \E a \in ads : a.category_id = resp.req.id

ItemFields ==
    {"id", "name", "author_id", "author", "price", "description",
     "is_published", "category_id", "image"}

=============================================================================
